---- MODULE Spec2Model ----
(***************************************************************************)
(* Model of drivers/gpu/drm/msm/msm_gem_shrinker.c: the msm GEM shrinker.  *)
(*                                                                         *)
(* Several execution contexts call the three callbacks                     *)
(*   msm_gem_shrinker_count, msm_gem_shrinker_scan, msm_gem_shrinker_vmap  *)
(* on one device.  Each callback is modelled statement group by statement  *)
(* group (trylock, one loop iteration, unlock and return), so that contexts *)
(* interleave the way threads do.  A context may also hold struct_mutex    *)
(* from its own code path before it calls a callback (the recursive case   *)
(* of mutex_trylock_recursive).                                            *)
(***************************************************************************)
EXTENDS Integers, Sequences, FiniteSets, TLC

(* ------------------------------ bounds --------------------------------- *)
\* longest inactive_list of the concurrent specification
MaxObjs == 3
\* largest sc->nr_to_scan a caller passes
MaxNr == 5
\* longest inactive_list of the sequential unmap specification
MaxVmapObjs == 20
\* number of consecutive unmap passes followed in the sequential specification
MaxPasses == 3
\* largest value of the accumulator *ptr handed to the unmap pass
MaxPtr == 2
\* number of consecutive calls followed in the sequential count/scan
\* specification
MaxCalls == 3
\* longest inactive list, and largest nr_to_scan, of the specification of
\* one pass over a long list
MaxWorkObjs == 17
MaxWorkNr == 2
\* longest inactive list of the lifecycle specification, and the calls of
\* init and of cleanup it follows
MaxLifeObjs == 1
MaxInits == 2
MaxCleanups == 2
\* calls the contexts of the specification with fairness make in all
MaxLiveCalls == 3

(* --------------------------- program constants ------------------------- *)
PAGE_SHIFT == 12
SHRINK_STOP == -1
NOTIFY_DONE == 0
\* the literal 15 of "if (++unmapped >= 15) break;"
VMAP_BAIL == 15
ENOMEM == 12
ENOENT == 2
EEXIST == 17

Ctx == {"c1", "c2"}
NoOwner == "none"

PageSize == 2 ^ PAGE_SHIFT

(* ------------------------------ objects -------------------------------- *)
\* discard advice of an object
Madv == {"WILLING_TO_DISCARD", "KEEP", "DO_NOT_NEED"}

\* struct msm_gem_object, the fields the shrinker's predicates read
Obj(sz, adv, rc, pages, va) ==
    [size |-> sz, madv |-> adv, refs |-> rc, sgt |-> pages, vaddr |-> va]

\* eligible for storage purge
is_purgeable(o) ==
    /\ o.madv = "WILLING_TO_DISCARD"
    /\ o.refs = 0
    /\ o.sgt

\* eligible for mapping unmap
is_vunmapable(o) ==
    /\ o.vaddr
    /\ o.refs = 0

\* purge: releases the backing storage, the object becomes non-resident
msm_gem_purge(o) == [o EXCEPT !.sgt = FALSE]

\* vunmap: revokes the virtual mapping, backing storage stays
msm_gem_vunmap(o) == [o EXCEPT !.vaddr = FALSE]

\* a conversion to pages that rounds up
Pages_up(size) == (size + PageSize - 1) \div PageSize

\* size >> PAGE_SHIFT
Pages(size) == size \div PageSize

\* freed << PAGE_SHIFT
Bytes(pages) == pages * PageSize

(* ------------------------------- lock ---------------------------------- *)
\* mutex_trylock_recursive(&dev->struct_mutex) called by context c when the
\* owner is m
mutex_trylock_recursive(m, c) ==
    IF m = c THEN "MUTEX_TRYLOCK_RECURSIVE"
    ELSE IF m = NoOwner THEN "MUTEX_TRYLOCK_SUCCESS"
    ELSE "MUTEX_TRYLOCK_FAILED"

\* owner of the mutex after mutex_trylock_recursive
mutex_after_trylock(m, c) == IF m = NoOwner THEN c ELSE m

\* msm_gem_shrinker_lock(dev, &unlock): the return value, *unlock and the
\* owner of struct_mutex afterwards
\* a failed trylock taken for a recursive one
LockFailed_granted(m, c) ==
    [ok |-> TRUE, unlock |-> FALSE, mutex |-> mutex_after_trylock(m, c)]

\* a fresh acquisition that forgets to ask for the unlock
LockSuccess_nounlock(m, c) ==
    [ok |-> TRUE, unlock |-> FALSE, mutex |-> mutex_after_trylock(m, c)]

\* a recursive acquisition that asks for the unlock
LockRecursive_unlock(m, c) ==
    [ok |-> TRUE, unlock |-> TRUE, mutex |-> mutex_after_trylock(m, c)]

LockFailed(m, c) == [ok |-> FALSE, unlock |-> FALSE, mutex |-> mutex_after_trylock(m, c)]
LockSuccess(m, c) == [ok |-> TRUE, unlock |-> TRUE, mutex |-> mutex_after_trylock(m, c)]
LockRecursive(m, c) == [ok |-> TRUE, unlock |-> FALSE, mutex |-> mutex_after_trylock(m, c)]

msm_gem_shrinker_lock(m, c) ==
    CASE mutex_trylock_recursive(m, c) = "MUTEX_TRYLOCK_FAILED" -> LockFailed(m, c)
      [] mutex_trylock_recursive(m, c) = "MUTEX_TRYLOCK_SUCCESS" -> LockSuccess(m, c)
      [] mutex_trylock_recursive(m, c) = "MUTEX_TRYLOCK_RECURSIVE" -> LockRecursive(m, c)

\* mutex_unlock(&dev->struct_mutex): the mutex has no owner afterwards
mutex_unlock(m, c) == NoOwner

(* --------------------------- loop bodies ------------------------------- *)
\* a purge test that forgets the reference count
PurgeSelects_norefs(o) == o.madv = "WILLING_TO_DISCARD" /\ o.sgt

\* "if (is_purgeable(msm_obj))" of the count and scan loops
PurgeSelects(o) == is_purgeable(o)

\* an unmap test that takes the purge test along
VmapSelects_purgeable(o) == is_vunmapable(o) /\ is_purgeable(o)

\* "if (is_vunmapable(msm_obj))" of the vmap loop
VmapSelects(o) == is_vunmapable(o)

\* the break test with > for >=
ScanBreak_gt(freed, nr) == freed > nr

\* a scan without the break test
ScanBreak_never(freed, nr) == FALSE

\* the break test one unit early
ScanBreak_off1(freed, nr) == freed >= nr - 1

\* "if (freed >= sc->nr_to_scan) break;"
ScanBreak(freed, nr) == freed >= nr

\* the bail-out test with > for >=
VmapBreak_gt(unmapped) == unmapped > VMAP_BAIL

\* "if (++unmapped >= 15) break;", evaluated on the incremented counter
VmapBreak(unmapped) == unmapped >= VMAP_BAIL

\* one iteration of the count loop on object o: the new count
count_body(o, count) ==
    IF PurgeSelects(o) THEN count + Pages(o.size) ELSE count

\* a scan body that adds the size in bytes
scan_body_bytes(o, freed) ==
    IF PurgeSelects(o)
    THEN [obj |-> msm_gem_purge(o), freed |-> freed + o.size]
    ELSE [obj |-> o, freed |-> freed]

\* one iteration of the scan loop on object o, past the break test:
\* the object and the running total afterwards
scan_body(o, freed) ==
    IF PurgeSelects(o)
    THEN [obj |-> msm_gem_purge(o), freed |-> freed + Pages(o.size)]
    ELSE [obj |-> o, freed |-> freed]

\* a vmap body that drops the backing storage with the mapping
vmap_body_purge(o, unmapped) ==
    IF VmapSelects(o)
    THEN [obj |-> msm_gem_purge(msm_gem_vunmap(o)), unmapped |-> unmapped + 1,
          brk |-> VmapBreak(unmapped + 1)]
    ELSE [obj |-> o, unmapped |-> unmapped, brk |-> FALSE]

\* one iteration of the vmap loop on object o: the object and the counter
\* afterwards, and whether the loop is left
vmap_body(o, unmapped) ==
    IF VmapSelects(o)
    THEN [obj |-> msm_gem_vunmap(o), unmapped |-> unmapped + 1,
          brk |-> VmapBreak(unmapped + 1)]
    ELSE [obj |-> o, unmapped |-> unmapped, brk |-> FALSE]

\* "if (unlock) mutex_unlock(&dev->struct_mutex);"
unlock_if(unlock, m, c) == IF unlock THEN mutex_unlock(m, c) ELSE m

(* ------------------------------- state --------------------------------- *)
VARIABLES
    inactive_list,  \* priv->inactive_list, in list order
    struct_mutex,   \* owner of dev->struct_mutex, or NoOwner
    frame,          \* per context: the running callback, its locals and result
    trace,          \* per context: trace events emitted by the running callback
    hist,           \* per context: history of the running callback
    passes,         \* the number of objects each completed unmap pass
                    \* unmapped, in order (sequential specification)
    life,           \* the registrations of the device: priv->shrinker, the
                    \* shrinker and the vmap notifier, and their history
    audit           \* what the callbacks did since the start: purges and
                    \* vunmaps per list position, the sum of the totals the
                    \* scans returned, the calls made (sequential
                    \* specification), the number of calls that returned
                    \* (specification with fairness)

vars == <<inactive_list, struct_mutex, frame, trace, hist, passes, life, audit>>

IdleFrame ==
    [pc |-> "idle", fn |-> "none", nr_to_scan |-> 0, pos |-> 0, count |-> 0,
     freed |-> 0, unmapped |-> 0, unlock |-> FALSE, ret |-> 0, ptr |-> 0]

\* owner0: owner of struct_mutex when the callback was entered
\* ptr0: *ptr when the callback was entered
\* list0: inactive_list when the callback was entered
\* sel: the objects the callback selected (counted, changed or added to its
\*      running total), in order, each with its list
\*      position, its state when selected and the mutex owner at that moment
\* unlocks: mutex_unlock calls made by the callback, bad: those made on a
\*      mutex the context did not own
\* dropped: the callback was in its loop without owning the mutex
IdleHist ==
    [owner0 |-> NoOwner, ptr0 |-> 0, list0 |-> <<>>, sel |-> <<>>,
     unlocks |-> 0, bad |-> 0, dropped |-> FALSE]

\* the kinds of object an inactive list of the concurrent specification holds
Kinds ==
    {Obj(4 * PageSize + 100, "WILLING_TO_DISCARD", 0, TRUE, TRUE),
     Obj(2 * PageSize, "WILLING_TO_DISCARD", 0, TRUE, FALSE),
     Obj(8 * PageSize, "WILLING_TO_DISCARD", 0, TRUE, TRUE),
     Obj(2 * PageSize, "WILLING_TO_DISCARD", 1, TRUE, TRUE),
     Obj(4 * PageSize + 100, "KEEP", 0, TRUE, TRUE)}

Lists(n) == UNION {[1..k -> Kinds] : k \in 0..n}

\* the audit record at the start, for list l
NoAudit(l) ==
    [purges |-> [i \in 1..Len(l) |-> 0], vunmaps |-> [i \in 1..Len(l) |-> 0],
     freed_ret |-> 0, calls |-> <<>>, returned |-> 0]

\* the audit record after the scan loop has moved the object at position i
\* from inactive_list to inactive_list'
Purged(i) ==
    IF i \in 1..Len(inactive_list) /\ inactive_list'[i].sgt # inactive_list[i].sgt
    THEN [audit EXCEPT !.purges[i] = @ + 1]
    ELSE audit

\* the same for the vmap loop and the mapping
Vunmapped(i) ==
    IF i \in 1..Len(inactive_list) /\ inactive_list'[i].vaddr # inactive_list[i].vaddr
    THEN [audit EXCEPT !.vunmaps[i] = @ + 1]
    ELSE audit

(* ----------------------------- lifecycle ------------------------------- *)
\* shrinker: priv->shrinker is NULL, points to the allocated shrinker
\* ("live") or to a released one ("freed"); private_data: what the
\* callbacks of the shrinker are bound to; registered: the shrinker is
\* registered; notifier: vmap_notifier is on the vmap purge chain.
\* init, init_ret, alloc, inits: msm_gem_shrinker_init has returned and
\* nothing was torn down since, what it returned, what shrinker_alloc gave
\* it, and the calls of it.  cpc: where msm_gem_shrinker_cleanup stands;
\* cleanups: the calls of it that returned; warns: WARN_ON reports;
\* log: what was registered and released, in order; last: the pointer the
\* latest cleanup found, and what it did; ub: a released shrinker was
\* released again.
LifeDown ==
    [shrinker |-> "NULL", private_data |-> "none", registered |-> FALSE,
     notifier |-> FALSE, init |-> "not_run", init_ret |-> 0, alloc |-> "none",
     inits |-> 0, cpc |-> "idle", cleanups |-> 0, warns |-> 0, log |-> <<>>,
     last |-> [valid |-> FALSE, shrinker0 |-> "NULL", did |-> <<>>],
     ub |-> FALSE]

\* register_vmap_purge_notifier: 0, or an error when nb is on the chain
register_vmap_purge_notifier(on) == IF on THEN -EEXIST ELSE 0

\* unregister_vmap_purge_notifier: 0, or an error when nb is not on the chain
unregister_vmap_purge_notifier(on) == IF on THEN 0 ELSE -ENOENT

\* WARN_ON(x): the reports it adds; the caller goes on
WARN_ON(x) == IF x # 0 THEN 1 ELSE 0

\* an init that puts the notifier on the chain before it looks at the
\* allocation
msm_gem_shrinker_init_early(l, alloc) ==
    IF alloc = "NULL"
    THEN [l EXCEPT !.shrinker = "NULL", !.alloc = alloc, !.inits = @ + 1,
                   !.notifier = TRUE,
                   !.init = "returned", !.init_ret = -ENOMEM]
    ELSE [l EXCEPT !.shrinker = alloc, !.alloc = alloc, !.inits = @ + 1,
                   !.private_data = "priv",
                   !.registered = TRUE,
                   !.notifier = TRUE,
                   !.log = @ \o <<"shrinker_register", "register_vmap_purge_notifier">>,
                   !.init = "returned", !.init_ret = 0]

\* msm_gem_shrinker_init on lifecycle record l, shrinker_alloc returning
\* alloc ("NULL" or "live"): 140-142 on NULL, 140-153 otherwise
msm_gem_shrinker_init(l, alloc) ==
    IF alloc = "NULL"
    THEN [l EXCEPT !.shrinker = "NULL", !.alloc = alloc, !.inits = @ + 1,
                   !.init = "returned", !.init_ret = -ENOMEM]
    ELSE [l EXCEPT !.shrinker = alloc, !.alloc = alloc, !.inits = @ + 1,
                   !.private_data = "priv",
                   !.registered = TRUE,
                   !.notifier = TRUE,
                   !.warns = @ + WARN_ON(register_vmap_purge_notifier(l.notifier)),
                   !.log = @ \o <<"shrinker_register", "register_vmap_purge_notifier">>,
                   !.init = "returned", !.init_ret = 0]

Init ==
    /\ inactive_list \in Lists(MaxObjs)
    /\ struct_mutex = NoOwner
    /\ frame = [c \in Ctx |-> IdleFrame]
    /\ trace = [c \in Ctx |-> <<>>]
    /\ hist = [c \in Ctx |-> IdleHist]
    /\ passes = <<>>
    /\ life = msm_gem_shrinker_init(LifeDown, "live")
    /\ audit = NoAudit(inactive_list)

\* the history record of a callback entered now with accumulator value a
Entered(a) ==
    [IdleHist EXCEPT !.owner0 = struct_mutex, !.ptr0 = a, !.list0 = inactive_list]

\* the history record after the callback of context c selected the object at
\* list position i
Selected(c, i) ==
    [hist[c] EXCEPT !.sel = Append(@, [pos |-> i, obj |-> inactive_list[i],
                                       owner |-> struct_mutex])]

\* the history record after the "if (unlock) mutex_unlock()" of context c
Unlocked(c) ==
    IF frame[c].unlock
    THEN [hist[c] EXCEPT !.unlocks = @ + 1,
                         !.bad = @ + (IF struct_mutex = c THEN 0 ELSE 1)]
    ELSE hist[c]

\* the history record after one more step of the loop of context c
Looped(h, c) ==
    [h EXCEPT !.dropped = @ \/ struct_mutex # c]

\* A frame at "done" is the snapshot of a callback that has returned: its
\* caller takes the result before any context moves on.
Quiet == \A d \in Ctx : frame[d].pc # "done"

\* context c is at statement group p of callback f
At(c, p, f) == Quiet /\ frame[c].pc = p /\ frame[c].fn = f

(* ------------------- code paths holding struct_mutex ------------------- *)
\* a code path of context c takes struct_mutex (mutex_lock returns once the
\* mutex is free)
MutexLock(c) ==
    /\ At(c, "idle", "none")
    /\ struct_mutex = NoOwner
    /\ struct_mutex' = c
    /\ UNCHANGED <<inactive_list, frame, trace, hist, passes, life, audit>>

\* the code path of context c releases struct_mutex
MutexUnlock(c) ==
    /\ At(c, "idle", "none")
    /\ struct_mutex = c
    /\ struct_mutex' = NoOwner
    /\ UNCHANGED <<inactive_list, frame, trace, hist, passes, life, audit>>

(* ----------------------- msm_gem_shrinker_count ------------------------ *)
\* lines 47-51: count = 0; the trylock; "return 0" when it fails
CountEnter(c) ==
    /\ At(c, "idle", "none")
    /\ LET L == msm_gem_shrinker_lock(struct_mutex, c) IN
        /\ struct_mutex' = L.mutex
        /\ frame' = [frame EXCEPT ![c] =
              IF L.ok
              THEN [IdleFrame EXCEPT !.pc = "loop", !.fn = "count", !.pos = 1,
                                     !.unlock = L.unlock]
              ELSE [IdleFrame EXCEPT !.pc = "done", !.fn = "count", !.ret = 0]]
    /\ hist' = [hist EXCEPT ![c] = Entered(0)]
    /\ UNCHANGED <<inactive_list, trace, passes, life, audit>>

\* a count loop that purges what it counts
CountLoop_purge(c) ==
    /\ At(c, "loop", "count")
    /\ LET f == frame[c] IN
        IF f.pos > Len(inactive_list)
        THEN /\ frame' = [frame EXCEPT ![c].pc = "unlock"]
             /\ hist' = [hist EXCEPT ![c] = Looped(hist[c], c)]
             /\ UNCHANGED inactive_list
        ELSE LET b == scan_body(inactive_list[f.pos], f.count) IN
             /\ inactive_list' = [inactive_list EXCEPT ![f.pos] = b.obj]
             /\ frame' = [frame EXCEPT ![c].count = b.freed, ![c].pos = f.pos + 1]
             /\ hist' = [hist EXCEPT ![c] =
                    Looped(IF b.freed # f.count THEN Selected(c, f.pos) ELSE hist[c], c)]
    /\ UNCHANGED <<struct_mutex, trace, passes, life, audit>>

\* lines 53-56: one iteration of list_for_each_entry, or the end of the list
CountLoop(c) ==
    /\ At(c, "loop", "count")
    /\ LET f == frame[c] IN
        IF f.pos > Len(inactive_list)
        THEN /\ frame' = [frame EXCEPT ![c].pc = "unlock"]
             /\ hist' = [hist EXCEPT ![c] = Looped(hist[c], c)]
        ELSE /\ frame' = [frame EXCEPT
                    ![c].count = count_body(inactive_list[f.pos], f.count),
                    ![c].pos = f.pos + 1]
             /\ hist' = [hist EXCEPT ![c] =
                    Looped(IF count_body(inactive_list[f.pos], f.count) # f.count
                           THEN Selected(c, f.pos) ELSE hist[c], c)]
    /\ UNCHANGED <<inactive_list, struct_mutex, trace, passes, life, audit>>

\* lines 58-61: the unlock and the return value
CountExit(c) ==
    /\ At(c, "unlock", "count")
    /\ struct_mutex' = unlock_if(frame[c].unlock, struct_mutex, c)
    /\ frame' = [frame EXCEPT ![c].pc = "done", ![c].ret = frame[c].count]
    /\ hist' = [hist EXCEPT ![c] = Unlocked(c)]
    /\ UNCHANGED <<inactive_list, trace, passes, life, audit>>

(* ------------------------ msm_gem_shrinker_scan ------------------------ *)
\* a scan that takes the mutex with mutex_lock: it waits while the mutex
\* has an owner
ScanEnter_lock(c, nr) ==
    /\ At(c, "idle", "none")
    /\ struct_mutex' = IF struct_mutex = NoOwner THEN c ELSE struct_mutex
    /\ frame' = [frame EXCEPT ![c] =
          IF struct_mutex = NoOwner
          THEN [IdleFrame EXCEPT !.pc = "loop", !.fn = "scan", !.pos = 1,
                                 !.nr_to_scan = nr, !.unlock = TRUE]
          ELSE [IdleFrame EXCEPT !.pc = "wait", !.fn = "scan", !.nr_to_scan = nr]]
    /\ hist' = [hist EXCEPT ![c] = Entered(0)]
    /\ UNCHANGED <<inactive_list, trace, passes, life, audit>>

\* lines 70-74: freed = 0; the trylock; "return SHRINK_STOP" when it fails
ScanEnter(c, nr) ==
    /\ At(c, "idle", "none")
    /\ LET L == msm_gem_shrinker_lock(struct_mutex, c) IN
        /\ struct_mutex' = L.mutex
        /\ frame' = [frame EXCEPT ![c] =
              IF L.ok
              THEN [IdleFrame EXCEPT !.pc = "loop", !.fn = "scan", !.pos = 1,
                                     !.nr_to_scan = nr, !.unlock = L.unlock]
              ELSE [IdleFrame EXCEPT !.pc = "done", !.fn = "scan",
                                     !.nr_to_scan = nr, !.ret = SHRINK_STOP]]
    /\ hist' = [hist EXCEPT ![c] = Entered(0)]
    /\ UNCHANGED <<inactive_list, trace, passes, life, audit>>

\* lines 76-83: one iteration of list_for_each_entry, the break, or the end
\* of the list
ScanLoop(c) ==
    /\ At(c, "loop", "scan")
    /\ LET f == frame[c] IN
        IF f.pos > Len(inactive_list) \/ ScanBreak(f.freed, f.nr_to_scan)
        THEN /\ frame' = [frame EXCEPT ![c].pc = "unlock"]
             /\ hist' = [hist EXCEPT ![c] = Looped(hist[c], c)]
             /\ UNCHANGED inactive_list
        ELSE LET b == scan_body(inactive_list[f.pos], f.freed) IN
             /\ inactive_list' = [inactive_list EXCEPT ![f.pos] = b.obj]
             /\ frame' = [frame EXCEPT ![c].freed = b.freed, ![c].pos = f.pos + 1]
             /\ hist' = [hist EXCEPT ![c] =
                    Looped(IF b.obj # inactive_list[f.pos] \/ b.freed # f.freed
                           THEN Selected(c, f.pos) ELSE hist[c], c)]
    /\ audit' = Purged(frame[c].pos)
    /\ UNCHANGED <<struct_mutex, trace, passes, life>>

\* lines 85-91: the unlock, the trace event and the return value
ScanExit(c) ==
    /\ At(c, "unlock", "scan")
    /\ struct_mutex' = unlock_if(frame[c].unlock, struct_mutex, c)
    /\ trace' = [trace EXCEPT ![c] =
          IF frame[c].freed > 0
          THEN Append(@, [ev |-> "msm_gem_purge", val |-> Bytes(frame[c].freed)])
          ELSE @]
    /\ frame' = [frame EXCEPT ![c].pc = "done", ![c].ret = frame[c].freed]
    /\ hist' = [hist EXCEPT ![c] = Unlocked(c)]
    /\ audit' = [audit EXCEPT !.freed_ret = @ + frame[c].freed]
    /\ UNCHANGED <<inactive_list, passes, life>>

(* ------------------------ msm_gem_shrinker_vmap ------------------------ *)
\* lines 101-105: unmapped = 0; the trylock; "return NOTIFY_DONE" when it
\* fails.  a is the value of *ptr the notifier chain passes in.
VmapEnter(c, a) ==
    /\ At(c, "idle", "none")
    /\ LET L == msm_gem_shrinker_lock(struct_mutex, c) IN
        /\ struct_mutex' = L.mutex
        /\ frame' = [frame EXCEPT ![c] =
              IF L.ok
              THEN [IdleFrame EXCEPT !.pc = "loop", !.fn = "vmap", !.pos = 1,
                                     !.ptr = a, !.unlock = L.unlock]
              ELSE [IdleFrame EXCEPT !.pc = "done", !.fn = "vmap", !.ptr = a,
                                     !.ret = NOTIFY_DONE]]
    /\ hist' = [hist EXCEPT ![c] = Entered(a)]
    /\ UNCHANGED <<inactive_list, trace, passes, life, audit>>

\* lines 107-117: one iteration of list_for_each_entry, or the end of the list
VmapLoop(c) ==
    /\ At(c, "loop", "vmap")
    /\ LET f == frame[c] IN
        IF f.pos > Len(inactive_list)
        THEN /\ frame' = [frame EXCEPT ![c].pc = "unlock"]
             /\ hist' = [hist EXCEPT ![c] = Looped(hist[c], c)]
             /\ UNCHANGED inactive_list
        ELSE LET b == vmap_body(inactive_list[f.pos], f.unmapped) IN
             /\ inactive_list' = [inactive_list EXCEPT ![f.pos] = b.obj]
             /\ frame' = [frame EXCEPT ![c].unmapped = b.unmapped,
                                       ![c].pos = f.pos + 1,
                                       ![c].pc = IF b.brk THEN "unlock" ELSE "loop"]
             /\ hist' = [hist EXCEPT ![c] =
                    Looped(IF b.obj # inactive_list[f.pos] \/ b.unmapped # f.unmapped
                           THEN Selected(c, f.pos) ELSE hist[c], c)]
    /\ audit' = Vunmapped(frame[c].pos)
    /\ UNCHANGED <<struct_mutex, trace, passes, life>>

\* an exit that stores the counter in *ptr
VmapExit_overwrite(c) ==
    /\ At(c, "unlock", "vmap")
    /\ struct_mutex' = unlock_if(frame[c].unlock, struct_mutex, c)
    /\ trace' = [trace EXCEPT ![c] =
          IF frame[c].unmapped > 0
          THEN Append(@, [ev |-> "msm_gem_purge_vmaps", val |-> frame[c].unmapped])
          ELSE @]
    /\ frame' = [frame EXCEPT ![c].pc = "done",
                              ![c].ptr = frame[c].unmapped,
                              ![c].ret = NOTIFY_DONE]
    /\ hist' = [hist EXCEPT ![c] = Unlocked(c)]
    /\ UNCHANGED <<inactive_list, passes, life, audit>>

\* lines 119-127: the unlock, *ptr += unmapped, the trace event and the
\* return value
VmapExit(c) ==
    /\ At(c, "unlock", "vmap")
    /\ struct_mutex' = unlock_if(frame[c].unlock, struct_mutex, c)
    /\ trace' = [trace EXCEPT ![c] =
          IF frame[c].unmapped > 0
          THEN Append(@, [ev |-> "msm_gem_purge_vmaps", val |-> frame[c].unmapped])
          ELSE @]
    /\ frame' = [frame EXCEPT ![c].pc = "done",
                              ![c].ptr = frame[c].ptr + frame[c].unmapped,
                              ![c].ret = NOTIFY_DONE]
    /\ hist' = [hist EXCEPT ![c] = Unlocked(c)]
    /\ UNCHANGED <<inactive_list, passes, life, audit>>

(* ------------------------------ callers -------------------------------- *)
\* the caller of a finished callback takes its result; the context is idle
\* again
Reset(c) ==
    /\ frame[c].pc = "done"
    /\ frame' = [frame EXCEPT ![c] = IdleFrame]
    /\ trace' = [trace EXCEPT ![c] = <<>>]
    /\ hist' = [hist EXCEPT ![c] = IdleHist]
    /\ UNCHANGED <<inactive_list, struct_mutex, life>>

Return(c) == Reset(c) /\ UNCHANGED <<passes, audit>>

\* the same, counting the finished pass
ReturnPass(c) ==
    /\ Len(passes) < MaxPasses
    /\ Reset(c)
    /\ passes' = Append(passes, frame[c].unmapped)
    /\ UNCHANGED audit

\* the same, recording the finished call
ReturnCall(c) ==
    /\ Len(audit.calls) < MaxCalls
    /\ Reset(c)
    /\ audit' = [audit EXCEPT !.calls = Append(@,
          [fn |-> frame[c].fn, nr |-> frame[c].nr_to_scan, ret |-> frame[c].ret,
           sel |-> {hist[c].sel[k].pos : k \in 1..Len(hist[c].sel)}])]
    /\ UNCHANGED passes

NrToScan == {0, MaxNr}
PtrIn == {MaxPtr}

Next ==
    \/ \E c \in Ctx : MutexLock(c)
    \/ \E c \in Ctx : MutexUnlock(c)
    \/ \E c \in Ctx : CountEnter(c)
    \/ \E c \in Ctx : CountLoop(c)
    \/ \E c \in Ctx : CountExit(c)
    \/ \E c \in Ctx, nr \in NrToScan : ScanEnter(c, nr)
    \/ \E c \in Ctx : ScanLoop(c)
    \/ \E c \in Ctx : ScanExit(c)
    \/ \E c \in Ctx, a \in PtrIn : VmapEnter(c, a)
    \/ \E c \in Ctx : VmapLoop(c)
    \/ \E c \in Ctx : VmapExit(c)
    \/ \E c \in Ctx : Return(c)

Spec == Init /\ [][Next]_vars

(* --------------- sequential unmap passes over a long list -------------- *)
\* an object with a mapping and no reference
Mapped == Obj(PageSize, "KEEP", 0, TRUE, TRUE)

\* objects the unmap pass must leave alone: a referenced one, an unmapped one
Holes == {Obj(PageSize, "KEEP", 1, TRUE, TRUE), Obj(PageSize, "KEEP", 0, TRUE, FALSE)}

\* n objects, all Mapped but for hole h at position k (k = 0: no hole)
VmapList(n, k, h) == [i \in 1..n |-> IF i = k THEN h ELSE Mapped]

InitVmap ==
    /\ \E n \in 0..MaxVmapObjs, k \in 0..MaxVmapObjs, h \in Holes :
          inactive_list = VmapList(n, k, h)
    /\ struct_mutex \in {NoOwner, "c1"}
    /\ frame = [c \in Ctx |-> IdleFrame]
    /\ trace = [c \in Ctx |-> <<>>]
    /\ hist = [c \in Ctx |-> IdleHist]
    /\ passes = <<>>
    /\ life = msm_gem_shrinker_init(LifeDown, "live")
    /\ audit = NoAudit(inactive_list)

\* one context runs unmap pass after unmap pass, nothing else happens
NextVmap ==
    \/ \E a \in PtrIn : VmapEnter("c1", a)
    \/ VmapLoop("c1")
    \/ VmapExit("c1")
    \/ ReturnPass("c1")

SpecVmap == InitVmap /\ [][NextVmap]_vars

(* ------- count and scan called in sequence by the lock's owner --------- *)
\* the kinds of object of the lists of the sequential count/scan
\* specification: two purgeable ones and a referenced one
SeqKinds ==
    {Obj(4 * PageSize + 100, "WILLING_TO_DISCARD", 0, TRUE, TRUE),
     Obj(2 * PageSize, "WILLING_TO_DISCARD", 0, TRUE, FALSE),
     Obj(2 * PageSize, "WILLING_TO_DISCARD", 1, TRUE, TRUE)}

\* nr_to_scan of the sequential specification: below, between and above the
\* counts its lists give
NrSeq == {0, 1, MaxNr, 4 * MaxObjs}

\* context c1 owns struct_mutex from the start and nothing else runs
InitSeq ==
    /\ inactive_list \in UNION {[1..k -> SeqKinds] : k \in 0..MaxObjs}
    /\ struct_mutex = "c1"
    /\ frame = [c \in Ctx |-> IdleFrame]
    /\ trace = [c \in Ctx |-> <<>>]
    /\ hist = [c \in Ctx |-> IdleHist]
    /\ passes = <<>>
    /\ life = msm_gem_shrinker_init(LifeDown, "live")
    /\ audit = NoAudit(inactive_list)

\* the function of the call logged last
LastCall ==
    IF audit.calls = <<>> THEN "none" ELSE audit.calls[Len(audit.calls)].fn

\* the pressure coordinator asks for the estimate first and after each scan
SeqCount(c) == LastCall \in {"none", "scan"} /\ CountEnter(c)

\* and calls scan with a budget after the estimate
SeqScan(c, nr) == LastCall = "count" /\ ScanEnter(c, nr)

\* c1 calls count and scan in turn, each call logged
NextSeq ==
    \/ SeqCount("c1")
    \/ CountLoop("c1")
    \/ CountExit("c1")
    \/ \E nr \in NrSeq : SeqScan("c1", nr)
    \/ ScanLoop("c1")
    \/ ScanExit("c1")
    \/ ReturnCall("c1")

SpecSeq == InitSeq /\ [][NextSeq]_vars

(* -------------------- one pass over a long list ------------------------ *)
\* an object of one page that scan purges and the unmap pass unmaps
Evictable == Obj(PageSize, "WILLING_TO_DISCARD", 0, TRUE, TRUE)

\* the same object with a reference: neither pass selects it
Pinned == Obj(PageSize, "WILLING_TO_DISCARD", 1, TRUE, TRUE)

\* n objects, all a but for object b at position k (k = 0: all a)
WorkList(n, k, a, b) == [i \in 1..n |-> IF i = k THEN b ELSE a]

InitWork ==
    /\ \E n \in 0..MaxWorkObjs, k \in 0..MaxWorkObjs :
          \/ inactive_list = WorkList(n, k, Pinned, Evictable)
          \/ inactive_list = WorkList(n, k, Evictable, Pinned)
    /\ struct_mutex = NoOwner
    /\ frame = [c \in Ctx |-> IdleFrame]
    /\ trace = [c \in Ctx |-> <<>>]
    /\ hist = [c \in Ctx |-> IdleHist]
    /\ passes = <<>>
    /\ life = msm_gem_shrinker_init(LifeDown, "live")
    /\ audit = NoAudit(inactive_list)

\* one call of scan or of the unmap pass, followed to its return
NextWork ==
    \/ \E nr \in 1..MaxWorkNr : ScanEnter("c1", nr)
    \/ ScanLoop("c1")
    \/ ScanExit("c1")
    \/ \E a \in PtrIn : VmapEnter("c1", a)
    \/ VmapLoop("c1")
    \/ VmapExit("c1")

SpecWork == InitWork /\ [][NextWork]_vars

(* ------------------------ init and teardown ---------------------------- *)
\* no callback of the functions fns is running in context c1: the notifier
\* chain and shrinker_free wait for the callbacks they remove
NoCall(fns) == ~(frame["c1"].fn \in fns /\ frame["c1"].pc \in {"loop", "unlock"})

\* the device is brought up: msm_gem_shrinker_init, lines 136-154
LifeInit(alloc) ==
    /\ life.cpc = "idle"
    /\ ~life.registered /\ ~life.notifier
    /\ life.inits < MaxInits
    /\ life' = msm_gem_shrinker_init(life, alloc)
    /\ UNCHANGED <<inactive_list, struct_mutex, frame, trace, hist, passes, audit>>

\* a cleanup without the test of priv->shrinker
CleanupNotifier_noguard ==
    /\ life.cpc = "idle"
    /\ life.cleanups < MaxCleanups
    /\ NoCall({"vmap"})
    /\ LET r == unregister_vmap_purge_notifier(life.notifier) IN
          life' = [life EXCEPT
              !.cpc = "free", !.init = "torn", !.notifier = FALSE,
              !.warns = @ + WARN_ON(r),
              !.log = Append(@, "unregister_vmap_purge_notifier"),
              !.last = [valid |-> TRUE, shrinker0 |-> life.shrinker,
                        did |-> <<"unregister_vmap_purge_notifier">>
                                \o (IF WARN_ON(r) > 0 THEN <<"WARN_ON">> ELSE <<>>)]]
    /\ UNCHANGED <<inactive_list, struct_mutex, frame, trace, hist, passes, audit>>

\* msm_gem_shrinker_cleanup, lines 164-167: the test of priv->shrinker;
\* the return when it is NULL, the notifier taken off the chain under
\* WARN_ON otherwise
CleanupNotifier ==
    /\ life.cpc = "idle"
    /\ life.cleanups < MaxCleanups
    /\ NoCall({"vmap"})
    /\ IF life.shrinker = "NULL"
       THEN life' = [life EXCEPT
              !.cleanups = @ + 1,
              !.last = [valid |-> TRUE, shrinker0 |-> "NULL", did |-> <<>>]]
       ELSE LET r == unregister_vmap_purge_notifier(life.notifier) IN
            life' = [life EXCEPT
              !.cpc = "free", !.init = "torn", !.notifier = FALSE,
              !.warns = @ + WARN_ON(r),
              !.log = Append(@, "unregister_vmap_purge_notifier"),
              !.last = [valid |-> TRUE, shrinker0 |-> life.shrinker,
                        did |-> <<"unregister_vmap_purge_notifier">>
                                \o (IF WARN_ON(r) > 0 THEN <<"WARN_ON">> ELSE <<>>)]]
    /\ UNCHANGED <<inactive_list, struct_mutex, frame, trace, hist, passes, audit>>

\* a release that leaves the shrinker registered
CleanupFree_keep ==
    /\ life.cpc = "free"
    /\ NoCall({"count", "scan"})
    /\ life' = [life EXCEPT
          !.cpc = "idle", !.cleanups = @ + 1, !.shrinker = "freed",
          !.log = Append(@, "shrinker_free"),
          !.last.did = Append(@, "shrinker_free")]
    /\ UNCHANGED <<inactive_list, struct_mutex, frame, trace, hist, passes, audit>>

\* msm_gem_shrinker_cleanup, line 168: shrinker_free(priv->shrinker), and
\* the return.  priv->shrinker keeps its value and points to released
\* memory from here on.  Releasing a shrinker that was released before is
\* undefined: the call stops the system, or it returns.
CleanupFree ==
    /\ life.cpc = "free"
    /\ NoCall({"count", "scan"})
    /\ \E out \in {"returns", "stops"} :
          /\ life.shrinker = "live" => out = "returns"
          /\ life' = [life EXCEPT
                !.cpc = IF out = "stops" THEN "stopped" ELSE "idle",
                !.cleanups = IF out = "stops" THEN @ ELSE @ + 1,
                !.shrinker = "freed",
                !.registered = FALSE,
                !.ub = @ \/ life.shrinker = "freed",
                !.log = Append(@, "shrinker_free"),
                !.last.did = Append(@, "shrinker_free")]
    /\ UNCHANGED <<inactive_list, struct_mutex, frame, trace, hist, passes, audit>>

\* the pressure coordinator calls count and scan of a registered shrinker
DeliverCount(c) == life.registered /\ CountEnter(c)
DeliverScan(c, nr) == life.registered /\ ScanEnter(c, nr)

\* the vmap purge chain calls the notifiers on it
DeliverVmap(c, a) == life.notifier /\ VmapEnter(c, a)

\* the device before msm_gem_shrinker_init: dev_private zeroed, nothing
\* registered
InitLife ==
    /\ inactive_list \in Lists(MaxLifeObjs)
    /\ struct_mutex = NoOwner
    /\ frame = [c \in Ctx |-> IdleFrame]
    /\ trace = [c \in Ctx |-> <<>>]
    /\ hist = [c \in Ctx |-> IdleHist]
    /\ passes = <<>>
    /\ life = LifeDown
    /\ audit = NoAudit(inactive_list)

NextLife ==
    \/ \E alloc \in {"NULL", "live"} : LifeInit(alloc)
    \/ CleanupNotifier
    \/ CleanupFree
    \/ DeliverCount("c1")
    \/ CountLoop("c1")
    \/ CountExit("c1")
    \/ \E nr \in NrToScan : DeliverScan("c1", nr)
    \/ ScanLoop("c1")
    \/ ScanExit("c1")
    \/ \E a \in PtrIn : DeliverVmap("c1", a)
    \/ VmapLoop("c1")
    \/ VmapExit("c1")
    \/ Return("c1")

SpecLife == InitLife /\ [][NextLife]_vars

(* --------------- concurrent callbacks, with fairness ------------------- *)
\* the same, counting the call
ReturnCount(c) ==
    /\ Reset(c)
    /\ audit' = [audit EXCEPT !.returned = @ + 1]
    /\ UNCHANGED passes

\* the contexts have calls left to make
CallsLeft ==
    audit.returned + Cardinality({c \in Ctx : frame[c].pc # "idle"}) < MaxLiveCalls

LiveCount(c) == CallsLeft /\ CountEnter(c)
LiveScan(c, nr) == CallsLeft /\ ScanEnter(c, nr)
LiveVmap(c, a) == CallsLeft /\ VmapEnter(c, a)

InitLive ==
    /\ inactive_list \in Lists(MaxLifeObjs)
    /\ struct_mutex = NoOwner
    /\ frame = [c \in Ctx |-> IdleFrame]
    /\ trace = [c \in Ctx |-> <<>>]
    /\ hist = [c \in Ctx |-> IdleHist]
    /\ passes = <<>>
    /\ life = msm_gem_shrinker_init(LifeDown, "live")
    /\ audit = NoAudit(inactive_list)

\* the steps of a callback of context c once it is entered, and its return
\* to the caller: the statements of a running thread
LiveStep(c) ==
    \/ CountLoop(c) \/ CountExit(c)
    \/ ScanLoop(c) \/ ScanExit(c)
    \/ VmapLoop(c) \/ VmapExit(c)
    \/ ReturnCount(c)

NextLive ==
    \/ \E c \in Ctx : MutexLock(c)
    \/ \E c \in Ctx : MutexUnlock(c)
    \/ \E c \in Ctx : LiveCount(c)
    \/ \E c \in Ctx, nr \in NrToScan : LiveScan(c, nr)
    \/ \E c \in Ctx, a \in PtrIn : LiveVmap(c, a)
    \/ \E c \in Ctx : LiveStep(c)

\* a context that has entered a callback goes on running; nothing makes a
\* context call, or release a mutex it took outside the callbacks
SpecLive ==
    InitLive /\ [][NextLive]_vars /\ \A c \in Ctx : WF_vars(LiveStep(c))

(* ======================= properties of the model ======================= *)
\* contexts whose frame runs, or has just returned from, callback f
In(f) == {c \in Ctx : frame[c].fn = f}

\* contexts in callback f that got the mutex (fresh or recursive)
Granted(f) == {c \in In(f) : hist[c].owner0 \in {NoOwner, c}}

\* a size in whole allocation units, rounded down
WholeUnits(size) == size \div (2 ^ PAGE_SHIFT)

\* whole units of the first n entries of a selection history
RECURSIVE SelPages(_, _)
SelPages(sel, n) ==
    IF n = 0 THEN 0 ELSE SelPages(sel, n - 1) + WholeUnits(sel[n].obj.size)

\* list positions a selection history names
SelPos(sel) == {sel[k].pos : k \in 1..Len(sel)}

\* whole units selected by history sel at list positions before i
RECURSIVE PagesBefore(_, _, _)
PagesBefore(sel, n, i) ==
    IF n = 0 THEN 0
    ELSE PagesBefore(sel, n - 1, i)
         + (IF sel[n].pos < i THEN WholeUnits(sel[n].obj.size) ELSE 0)

\* C1: budget monotonicity of scan.  A scan that got the mutex purges an
\* object only if the whole-unit sizes of the objects it purged before sum
\* to strictly less than nr_to_scan; from the first list position at which
\* the running total is >= nr_to_scan on, no object is selected and every
\* object is as it was when scan was entered.
C1_BudgetMonotonicity ==
    \A c \in Granted("scan") :
        LET h == hist[c]
            nr == frame[c].nr_to_scan
        IN  /\ \A k \in 1..Len(h.sel) : SelPages(h.sel, k - 1) < nr
            /\ \A i \in 1..Len(inactive_list) :
                  PagesBefore(h.sel, Len(h.sel), i) >= nr =>
                      /\ i \notin SelPos(h.sel)
                      /\ inactive_list[i] = h.list0[i]

\* the list [A(4 units), B(2 units), C(8 units)], all purgeable
ListABC ==
    <<Obj(4 * PageSize + 100, "WILLING_TO_DISCARD", 0, TRUE, TRUE),
      Obj(2 * PageSize, "WILLING_TO_DISCARD", 0, TRUE, FALSE),
      Obj(8 * PageSize, "WILLING_TO_DISCARD", 0, TRUE, TRUE)>>

\* C1 witness: scan(5) on [A=4, B=2, C=8] has returned 6, having purged A
\* and B and left C
C1_Witness ==
    \E c \in Granted("scan") :
        /\ frame[c].pc = "done"
        /\ frame[c].nr_to_scan = 5
        /\ hist[c].list0 = ListABC
        /\ SelPos(hist[c].sel) = {1, 2}
        /\ ~inactive_list[1].sgt /\ ~inactive_list[2].sgt
        /\ inactive_list[3] = ListABC[3]
        /\ frame[c].ret = 6

\* contexts with a callback entered and not yet handed back to its caller
Busy == {c \in Ctx : frame[c].pc # "idle"}

\* C2: eligibility.  Whatever count and scan select has discard advice
\* willing-to-discard, reference count 0 and backing storage; whatever the
\* unmap pass selects has a mapping and reference count 0; an object with a
\* reference count > 0 is never selected and is as it was when the callback
\* was entered.
C2_Eligibility ==
    \A c \in Busy :
        LET h == hist[c] IN
        /\ \A k \in 1..Len(h.sel) :
              LET o == h.sel[k].obj IN
              /\ o.refs = 0
              /\ frame[c].fn \in {"count", "scan"} =>
                    o.madv = "WILLING_TO_DISCARD" /\ o.sgt
              /\ frame[c].fn = "vmap" => o.vaddr
        /\ \A i \in 1..Len(h.list0) :
              h.list0[i].refs > 0 =>
                  i \notin SelPos(h.sel) /\ inactive_list[i] = h.list0[i]

\* C2 witness: a scan has passed over a referenced object that has discard
\* advice, backing storage and a mapping, and purged an object behind it
C2_Witness ==
    \E c \in Granted("scan") :
        /\ frame[c].pc = "done"
        /\ \E i, j \in 1..Len(hist[c].list0) :
              /\ i < j
              /\ hist[c].list0[i].refs > 0
              /\ hist[c].list0[i].madv = "WILLING_TO_DISCARD"
              /\ hist[c].list0[i].sgt /\ hist[c].list0[i].vaddr
              /\ inactive_list[i] = hist[c].list0[i]
              /\ j \in SelPos(hist[c].sel)
              /\ ~inactive_list[j].sgt

\* contexts whose callback found the mutex held by another context
Contended == {c \in Busy : hist[c].owner0 \notin {NoOwner, c}}

\* contexts whose callback was entered with the mutex already held by them
Recursive == {c \in Busy : hist[c].owner0 = c}

\* contexts whose callback found the mutex free
Fresh == {c \in Busy : hist[c].owner0 = NoOwner}

\* whole units of the first n objects of list l
RECURSIVE ListPages(_, _)
ListPages(l, n) ==
    IF n = 0 THEN 0 ELSE ListPages(l, n - 1) + WholeUnits(l[n].size)

\* the value a callback returns when it does not get the mutex
NothingDone(f) ==
    CASE f = "count" -> 0
      [] f = "scan" -> SHRINK_STOP
      [] f = "vmap" -> NOTIFY_DONE

\* C3: fail-fast under contention.  A callback entered while another
\* context owns struct_mutex has returned in the step that entered it
\* (it never waits in the loop or before the unlock): count returns 0, scan
\* returns SHRINK_STOP, which no freed total equals, the unmap pass returns
\* NOTIFY_DONE with *ptr as it was; nothing was selected, no object changed,
\* no trace event was emitted, no unlock was made and the owner of the mutex
\* is the one found at entry.
C3_FailFast ==
    \A c \in Contended :
        /\ frame[c].pc = "done"
        /\ frame[c].ret = NothingDone(frame[c].fn)
        /\ SHRINK_STOP \notin 0..ListPages(hist[c].list0, Len(hist[c].list0))
        /\ frame[c].ptr = hist[c].ptr0
        /\ hist[c].sel = <<>>
        /\ inactive_list = hist[c].list0
        /\ trace[c] = <<>>
        /\ hist[c].unlocks = 0
        /\ struct_mutex = hist[c].owner0

\* C3 witness: a scan that asked for pages has returned SHRINK_STOP while
\* another context is in the middle of its own pass with purgeable objects
\* still ahead of it
C3_Witness ==
    \E c \in Contended, d \in Ctx :
        /\ frame[c].fn = "scan" /\ frame[c].pc = "done"
        /\ frame[c].nr_to_scan > 0
        /\ frame[d].pc = "loop" /\ frame[d].pos > 1
        /\ \E i \in 1..Len(inactive_list) : is_purgeable(inactive_list[i])

\* the loop of the callback of context c has run to its end: to the end of
\* the list, or to the break of scan or of the unmap pass
FullPass(c) ==
    \/ frame[c].pos > Len(inactive_list)
    \/ frame[c].fn = "scan" /\ frame[c].freed >= frame[c].nr_to_scan
    \/ frame[c].fn = "vmap" /\ frame[c].unmapped >= VMAP_BAIL

\* C4: reentrancy.  A callback entered by the context that already owns
\* struct_mutex is granted, the context owns the mutex at every step of the
\* callback and when it has returned, no unlock is made, and the callback
\* returns only after its full pass.
C4_Reentrancy ==
    \A c \in Recursive :
        /\ struct_mutex = c
        /\ hist[c].unlocks = 0
        /\ ~hist[c].dropped
        /\ frame[c].pc \in {"loop", "unlock", "done"}
        /\ frame[c].pc \in {"unlock", "done"} => FullPass(c)
        /\ frame[c].pc = "done" /\ frame[c].fn = "scan" =>
              frame[c].ret = frame[c].freed /\ frame[c].ret # SHRINK_STOP

\* C4 witness: a scan entered by the owner of the mutex has purged two
\* objects and returned; the context still owns the mutex
C4_Witness ==
    \E c \in Recursive :
        /\ frame[c].fn = "scan" /\ frame[c].pc = "done"
        /\ Len(hist[c].sel) >= 2
        /\ struct_mutex = c

\* C5: symmetric release.  A callback makes no unlock before it leaves, and
\* when it has returned it has made exactly one unlock if it found the mutex
\* free and none otherwise; it never unlocks a mutex its context does not
\* own; the owner of the mutex is then the one found at entry.
C5_SymmetricRelease ==
    \A c \in Busy :
        /\ hist[c].bad = 0
        /\ frame[c].pc # "done" => hist[c].unlocks = 0
        /\ frame[c].pc = "done" =>
              /\ hist[c].unlocks = (IF c \in Fresh THEN 1 ELSE 0)
              /\ struct_mutex = hist[c].owner0

\* C5 witness: an unmap pass that found the mutex free has unmapped an
\* object and returned; it made one unlock and the mutex is free again
C5_Witness ==
    \E c \in Fresh :
        /\ frame[c].fn = "vmap" /\ frame[c].pc = "done"
        /\ hist[c].sel # <<>>
        /\ hist[c].unlocks = 1
        /\ struct_mutex = NoOwner

\* C6: mutation only under the lock.  Every object a callback selected was
\* selected while its context owned struct_mutex, every change of the list
\* made since the callback was entered is one of its selections, and the
\* context owns the mutex at every step from the first object visited to the
\* unlock after the last one.
C6_MutateUnderLock ==
    \A c \in Busy :
        /\ \A k \in 1..Len(hist[c].sel) : hist[c].sel[k].owner = c
        /\ ~hist[c].dropped
        /\ frame[c].pc \in {"loop", "unlock"} =>
              /\ struct_mutex = c
              /\ \A i \in 1..Len(inactive_list) :
                    inactive_list[i] # hist[c].list0[i] => i \in SelPos(hist[c].sel)

\* C6 witness: an unmap pass is past its last object, has unmapped two
\* objects and still owns the mutex it took fresh
C6_Witness ==
    \E c \in Fresh :
        /\ frame[c].fn = "vmap" /\ frame[c].pc = "unlock"
        /\ Len(hist[c].sel) >= 2
        /\ struct_mutex = c

\* list positions of the unmap-eligible objects of list l
VmapEligible(l) == {i \in 1..Len(l) : l[i].vaddr /\ l[i].refs = 0}

\* the first n members of a set of list positions
FirstN(S, n) == {i \in S : Cardinality({j \in S : j <= i}) <= n}

Min(a, b) == IF a <= b THEN a ELSE b

\* C7: unmap cap.  An unmap pass selects at most 15 objects; when it has
\* returned, the objects it unmapped are exactly the first 15 unmap-eligible
\* objects of the list in list order (all of them when there are fewer), and
\* every other object is as it was when the pass was entered.
C7_UnmapCap ==
    \A c \in Granted("vmap") :
        LET h == hist[c]
            first == FirstN(VmapEligible(h.list0), 15)
        IN  /\ Len(h.sel) <= 15
            /\ frame[c].unmapped = Len(h.sel)
            /\ SelPos(h.sel) \subseteq first
            /\ frame[c].pc = "done" =>
                  /\ SelPos(h.sel) = first
                  /\ \A i \in 1..Len(inactive_list) :
                        IF i \in first
                        THEN inactive_list[i] = [h.list0[i] EXCEPT !.vaddr = FALSE]
                        ELSE inactive_list[i] = h.list0[i]

\* C7 witness: a pass over more than 15 eligible objects, with an ineligible
\* object among the first 15 list positions, has returned having unmapped 15;
\* an eligible object behind them still has its mapping
C7_Witness ==
    \E c \in Granted("vmap") :
        /\ frame[c].pc = "done"
        /\ Cardinality(VmapEligible(hist[c].list0)) > 15
        /\ \E i \in 1..15 : i \notin VmapEligible(hist[c].list0)
        /\ Len(hist[c].sel) = 15
        /\ VmapEligible(inactive_list) # {}

RECURSIVE SumSeq(_, _)
SumSeq(q, n) == IF n = 0 THEN 0 ELSE SumSeq(q, n - 1) + q[n]

\* unmap-eligible objects in the list before the first pass: those left,
\* those unmapped by the completed passes and by the running one
VmapEligible0 ==
    Cardinality(VmapEligible(inactive_list)) + SumSeq(passes, Len(passes))
        + Len(hist["c1"].sel)

\* C8: no object is skipped for good.  With N unmap-eligible objects at the
\* start and nothing but unmap passes running, each pass unmaps
\* min(15, remaining) objects and adds that number to *ptr, and once
\* ceil(N / 15) passes have completed no eligible object has a mapping.
C8_NoPermanentSkip ==
    /\ \A k \in 1..Len(passes) :
          passes[k] = Min(15, VmapEligible0 - SumSeq(passes, k - 1))
    /\ frame["c1"].pc = "done" =>
          /\ frame["c1"].unmapped
                = Min(15, VmapEligible0 - SumSeq(passes, Len(passes)))
          /\ frame["c1"].ptr = hist["c1"].ptr0 + frame["c1"].unmapped
    /\ frame["c1"].pc # "idle" =>
          Cardinality(VmapEligible(hist["c1"].list0))
              = VmapEligible0 - SumSeq(passes, Len(passes))
    /\ 15 * Len(passes) >= VmapEligible0 => VmapEligible(inactive_list) = {}

\* C8 witness: 20 eligible objects; the first pass unmapped 15, the second
\* has returned having unmapped the other 5 and added 5 to *ptr
C8_Witness ==
    /\ Len(inactive_list) = 20
    /\ passes = <<15>>
    /\ frame["c1"].pc = "done"
    /\ frame["c1"].unmapped = 5
    /\ frame["c1"].ptr = hist["c1"].ptr0 + 5
    /\ \A i \in 1..20 : ~inactive_list[i].vaddr /\ inactive_list[i].refs = 0

\* list positions of the objects of list l eligible for storage purge
PurgeEligible(l) ==
    {i \in 1..Len(l) : l[i].madv = "WILLING_TO_DISCARD" /\ l[i].refs = 0 /\ l[i].sgt}

\* whole units of the purge-eligible objects among the first n of list l
RECURSIVE EligiblePages(_, _)
EligiblePages(l, n) ==
    IF n = 0 THEN 0
    ELSE EligiblePages(l, n - 1)
         + (IF n \in PurgeEligible(l) THEN WholeUnits(l[n].size) ELSE 0)

\* C9: a scan that got the mutex returns the sum of the whole-unit sizes of
\* the objects it purged, these being the objects that lost their backing
\* storage since it was entered; when it returns less than nr_to_scan, no
\* object of the list is eligible for storage purge.
C9_ScanResult ==
    \A c \in Granted("scan") :
        frame[c].pc = "done" =>
            LET h == hist[c] IN
            /\ frame[c].ret = SelPages(h.sel, Len(h.sel))
            /\ SelPos(h.sel) =
                  {i \in 1..Len(inactive_list) : h.list0[i].sgt /\ ~inactive_list[i].sgt}
            /\ \A k \in 1..Len(h.sel) : h.sel[k].obj = h.list0[h.sel[k].pos]
            /\ frame[c].ret < frame[c].nr_to_scan =>
                  PurgeEligible(inactive_list) = {}

\* C9 witness: a scan has returned less than asked, having purged an
\* object, over a list that keeps an object with backing storage
C9_Witness ==
    \E c \in Granted("scan") :
        /\ frame[c].pc = "done"
        /\ 0 < frame[c].ret /\ frame[c].ret < frame[c].nr_to_scan
        /\ \E i \in 1..Len(inactive_list) : inactive_list[i].sgt

\* C10: a count that got the mutex visits the whole list, leaves it as it
\* was and returns the sum, over the purge-eligible objects of the list, of
\* the size rounded down to whole units.
C10_CountExact ==
    \A c \in Granted("count") :
        LET h == hist[c] IN
        /\ frame[c].pc = "loop" =>
              frame[c].count = EligiblePages(h.list0, frame[c].pos - 1)
        /\ frame[c].pc \in {"unlock", "done"} =>
              /\ frame[c].pos = Len(h.list0) + 1
              /\ frame[c].count = EligiblePages(h.list0, Len(h.list0))
              /\ SelPos(h.sel) = PurgeEligible(h.list0)
        /\ frame[c].pc = "done" =>
              /\ frame[c].ret = EligiblePages(h.list0, Len(h.list0))
              /\ inactive_list = h.list0

\* C10 witness: a count has returned 4 for a list of an ineligible object
\* and an eligible one of 4 pages and 100 bytes
C10_Witness ==
    \E c \in Granted("count") :
        /\ frame[c].pc = "done"
        /\ Len(hist[c].list0) = 2
        /\ hist[c].list0[1].refs > 0
        /\ hist[c].list0[2] = Obj(4 * PageSize + 100, "WILLING_TO_DISCARD", 0, TRUE, TRUE)
        /\ frame[c].ret = 4

\* C11: count is pure.  From the entry of a count to its return, whatever
\* the owner of the mutex at entry, the inactive list (every field of every
\* object, the members and their order) is as it was at entry, no trace
\* event is emitted and no accumulator is written; no purge and no vunmap is
\* made; when the count has returned, the owner of the mutex is the one
\* found at entry.
C11_CountPure ==
    \A c \in In("count") :
        /\ inactive_list = hist[c].list0
        /\ trace[c] = <<>>
        /\ frame[c].ptr = hist[c].ptr0
        /\ \A i \in 1..Len(inactive_list) :
              inactive_list[i].sgt = hist[c].list0[i].sgt
                  /\ inactive_list[i].vaddr = hist[c].list0[i].vaddr
        /\ frame[c].pc = "done" => struct_mutex = hist[c].owner0

\* C11 witness: a count that found the mutex free has counted an object and
\* returned; the object it counted still has its backing storage and its
\* mapping, and the mutex is free
C11_Witness ==
    \E c \in In("count") :
        /\ frame[c].pc = "done" /\ frame[c].ret > 0
        /\ hist[c].owner0 = NoOwner /\ struct_mutex = NoOwner
        /\ \E i \in PurgeEligible(inactive_list) : inactive_list[i].vaddr

\* list positions at which list l has a mapping that list m has not
Unmapped(l, m) == {i \in 1..Len(l) : l[i].vaddr /\ ~m[i].vaddr}

\* the trace of an unmap pass that unmapped n objects
VmapTrace(n) ==
    IF n > 0 THEN <<[ev |-> "msm_gem_purge_vmaps", val |-> n]>> ELSE <<>>

\* C13: accumulator and acknowledgment of the unmap pass.  A pass that has
\* returned has returned NOTIFY_DONE, with or without the mutex.  With the
\* mutex, *ptr at return is *ptr at entry plus the number of objects that
\* lost their mapping since entry, and the trace holds one
\* msm_gem_purge_vmaps event carrying that number when it is nonzero and
\* nothing otherwise; without the mutex, and before the return, *ptr is as
\* it was at entry and nothing is traced.
C13_AccumulatorAck ==
    \A c \in In("vmap") :
        LET n == Cardinality(Unmapped(hist[c].list0, inactive_list)) IN
        /\ frame[c].pc = "done" => frame[c].ret = NOTIFY_DONE
        /\ frame[c].pc = "done" /\ c \in Granted("vmap") =>
              /\ frame[c].ptr = hist[c].ptr0 + n
              /\ trace[c] = VmapTrace(n)
        /\ frame[c].pc # "done" \/ c \notin Granted("vmap") =>
              /\ frame[c].ptr = hist[c].ptr0
              /\ trace[c] = <<>>

\* C13 witness: a pass entered with a nonzero *ptr has unmapped two objects
\* and returned
C13_Witness ==
    \E c \in Granted("vmap") :
        /\ frame[c].pc = "done"
        /\ hist[c].ptr0 > 0
        /\ Cardinality(Unmapped(hist[c].list0, inactive_list)) = 2
        /\ frame[c].ptr = hist[c].ptr0 + 2

\* C20: passes touch only what they select.  From entry on, the list of a
\* scan or of an unmap pass has the members it had at entry, in their order;
\* an object differs from its entry state only if it was eligible at entry,
\* and then only in the one field the primitive clears: the backing storage
\* for scan, the mapping for the unmap pass.  Scan never writes *ptr.
C20_TouchOnlySelected ==
    \A c \in In("scan") \cup In("vmap") :
        LET l0 == hist[c].list0 IN
        /\ Len(inactive_list) = Len(l0)
        /\ \A i \in 1..Len(l0) :
              \/ inactive_list[i] = l0[i]
              \/ /\ frame[c].fn = "scan"
                 /\ i \in PurgeEligible(l0)
                 /\ inactive_list[i] = [l0[i] EXCEPT !.sgt = FALSE]
              \/ /\ frame[c].fn = "vmap"
                 /\ i \in VmapEligible(l0)
                 /\ inactive_list[i] = [l0[i] EXCEPT !.vaddr = FALSE]
        /\ frame[c].fn = "scan" => frame[c].ptr = hist[c].ptr0

\* C20 witness: an unmap pass has returned having unmapped a purgeable
\* object, which keeps its backing storage, and having passed over a mapped
\* object with a reference
C20_Witness ==
    \E c \in Granted("vmap") :
        /\ frame[c].pc = "done"
        /\ \E i, j \in 1..Len(inactive_list) :
              /\ i \in PurgeEligible(inactive_list)
              /\ hist[c].list0[i].vaddr /\ ~inactive_list[i].vaddr
              /\ inactive_list[j].refs > 0 /\ inactive_list[j].vaddr

\* contexts inside the loop of a callback, up to its unlock
InLoop == {c \in Ctx : frame[c].pc \in {"loop", "unlock"}}

\* whole units of the objects among the first n of list l that have no
\* backing storage
RECURSIVE NonResidentPages(_, _)
NonResidentPages(l, n) ==
    IF n = 0 THEN 0
    ELSE NonResidentPages(l, n - 1) + (IF l[n].sgt THEN 0 ELSE WholeUnits(l[n].size))

\* the running totals of the scans that have not returned yet
RECURSIVE FreedInFlight(_)
FreedInFlight(S) ==
    IF S = {} THEN 0
    ELSE LET c == CHOOSE x \in S : TRUE IN
         (IF frame[c].fn = "scan" THEN frame[c].freed ELSE 0) + FreedInFlight(S \ {c})

\* C18: concurrent passes are serialized.  Under any interleaving of the
\* callbacks of two contexts, at most one context is inside a loop, and it
\* owns struct_mutex; every object has been purged at most once and
\* unmapped at most once, exactly the objects without backing storage have
\* been purged; and the totals returned by all scans, plus the running total
\* of the scan inside its loop, sum to the whole-unit size of the objects
\* without backing storage (all objects had it at the start).
C18_Serialized ==
    /\ Cardinality(InLoop) <= 1
    /\ \A c \in InLoop : struct_mutex = c
    /\ \A i \in 1..Len(inactive_list) :
          /\ audit.purges[i] = (IF inactive_list[i].sgt THEN 0 ELSE 1)
          /\ audit.vunmaps[i] <= 1
          /\ audit.vunmaps[i] = 1 => ~inactive_list[i].vaddr
    /\ audit.freed_ret + FreedInFlight(InLoop)
          = NonResidentPages(inactive_list, Len(inactive_list))

\* C18 witness: one context is in its second scan, having purged an object
\* in each, over an object an unmap pass unmapped before; a scan of the
\* other context has just returned SHRINK_STOP
C18_Witness ==
    \E c \in Ctx : \E d \in Ctx \ {c} :
        /\ frame[c].fn = "scan" /\ frame[c].pc = "loop" /\ frame[c].freed > 0
        /\ audit.freed_ret > 0
        /\ frame[d].fn = "scan" /\ frame[d].pc = "done" /\ frame[d].ret = SHRINK_STOP
        /\ \E i \in 1..Len(inactive_list) :
              audit.vunmaps[i] = 1 /\ inactive_list[i].sgt

\* C19: estimate and eviction agree.  In the log of the calls made one
\* after the other by the owner of the mutex: when a count that returned c
\* is followed by scan(n), then with n >= c the scan returns c and purges
\* exactly the objects the count had summed, and a count following it
\* returns 0; with n < c the scan returns r with n <= r <= c.
C19_EstimateAgrees ==
    \A k \in 1..(Len(audit.calls) - 1) :
        LET cnt == audit.calls[k]
            scn == audit.calls[k + 1]
        IN  cnt.fn = "count" /\ scn.fn = "scan" =>
              /\ scn.nr >= cnt.ret =>
                    /\ scn.ret = cnt.ret
                    /\ scn.sel = cnt.sel
                    /\ k + 2 <= Len(audit.calls) /\ audit.calls[k + 2].fn = "count" =>
                          audit.calls[k + 2].ret = 0
              /\ scn.nr < cnt.ret =>
                    scn.nr <= scn.ret /\ scn.ret <= cnt.ret

\* C19 witness: over a list with a referenced object, count returned 6,
\* scan(12) returned 6 having purged the two objects count had summed, and
\* the next count returned 0
C19_Witness ==
    /\ Len(audit.calls) = 3
    /\ audit.calls[1].fn = "count" /\ audit.calls[1].ret = 6
    /\ audit.calls[2].fn = "scan" /\ audit.calls[2].nr = 12
    /\ audit.calls[2].ret = 6 /\ Cardinality(audit.calls[2].sel) = 2
    /\ audit.calls[3].fn = "count" /\ audit.calls[3].ret = 0
    /\ \E i \in 1..Len(inactive_list) : inactive_list[i].refs > 0

\* C19 witness of the other case: count returned 6 and scan(1) returned 4
C19_WitnessBelow ==
    /\ Len(audit.calls) >= 2
    /\ audit.calls[1].fn = "count" /\ audit.calls[1].ret = 6
    /\ audit.calls[2].fn = "scan" /\ audit.calls[2].nr = 1
    /\ audit.calls[2].ret = 4

\* the objects the loop of context c has got to and tested
Visited(c) == frame[c].pos - 1

\* the objects among the first n of list l that are not in set S
Outside(l, n, S) == Cardinality({i \in 1..n : i \notin S})

\* C12 as stated: the objects one invocation visits are bounded by the
\* budget, or by the cap, and not by the length of the list: a scan with a
\* budget below the length of the list, and an unmap pass over a list
\* longer than the cap, return without having visited the whole list.
C12_Original ==
    \A c \in In("scan") \cup In("vmap") :
        frame[c].pc = "done" =>
            /\ frame[c].fn = "scan" /\ frame[c].nr_to_scan < Len(hist[c].list0) =>
                  Visited(c) < Len(hist[c].list0)
            /\ frame[c].fn = "vmap" /\ VMAP_BAIL < Len(hist[c].list0) =>
                  Visited(c) < Len(hist[c].list0)

\* C12: bounded work.  The budget and the cap bound what an invocation
\* evicts, not what it visits: a scan purges at most nr_to_scan objects of
\* one whole unit or more and visits no object once the units purged reach
\* nr_to_scan; an unmap pass unmaps at most 15 objects and visits no object
\* after the 15th unmap.  Every object visited and not evicted is an
\* ineligible one, and these are not bounded by the budget or the cap: the
\* objects visited are at most the length of the list.
C12_BoundedWork ==
    \A c \in In("scan") \cup In("vmap") :
        LET l0 == hist[c].list0
            v == Visited(c)
            purged == {i \in 1..Len(l0) : l0[i].sgt /\ ~inactive_list[i].sgt}
            unmapped == Unmapped(l0, inactive_list)
        IN  /\ v <= Len(l0)
            /\ frame[c].fn = "scan" =>
                  /\ Cardinality(purged) <= frame[c].nr_to_scan
                  /\ v > 0 => EligiblePages(l0, v - 1) < frame[c].nr_to_scan
                  /\ v = Cardinality(purged) + Outside(l0, v, PurgeEligible(l0))
            /\ frame[c].fn = "vmap" =>
                  /\ Cardinality(unmapped) <= VMAP_BAIL
                  /\ v > 0 => Cardinality({i \in unmapped : i < v}) < VMAP_BAIL
                  /\ v = Cardinality(unmapped) + Outside(l0, v, VmapEligible(l0))

\* C12 witness: scan(1) over 17 objects, the first 16 of them referenced,
\* has visited all 17 and purged the last one
C12_Witness ==
    \E c \in Granted("scan") :
        /\ frame[c].pc = "done" /\ frame[c].nr_to_scan = 1
        /\ Len(hist[c].list0) = 17
        /\ Visited(c) = 17
        /\ frame[c].ret = 1
        /\ \A i \in 1..16 : inactive_list[i].refs > 0

\* s is the sequence q cut after some element
IsPrefix(s, q) == Len(s) <= Len(q) /\ \A k \in 1..Len(s) : s[k] = q[k]

\* log q holds a release of the shrinker that follows another release
\* with no registration in between
DoubleFree(q) ==
    \E j, k \in 1..Len(q) :
        /\ j < k
        /\ q[j] = "shrinker_free" /\ q[k] = "shrinker_free"
        /\ \A i \in (j + 1)..(k - 1) : q[i] # "shrinker_register"

AfterInit == life.init = "returned"

\* C15: init failure leaves no partial registration.  At the return of an
\* init whose shrinker_alloc gave NULL the result is -ENOMEM, priv->shrinker
\* is NULL and neither the shrinker nor the notifier is registered; at the
\* return of any other init the result is 0, the shrinker is registered
\* with its callbacks bound to priv, and the notifier is on the chain.
C15_InitAllOrNothing ==
    AfterInit =>
        /\ life.init_ret \in {0, -ENOMEM}
        /\ life.init_ret = -ENOMEM <=> life.alloc = "NULL"
        /\ life.init_ret = -ENOMEM =>
              ~life.registered /\ ~life.notifier /\ life.shrinker = "NULL"
        /\ life.init_ret = 0 =>
              /\ life.registered /\ life.notifier
              /\ life.shrinker = "live" /\ life.private_data = "priv"

\* C15 witness: the second init of a device, after a first life with a
\* teardown, has failed with -ENOMEM; nothing is registered
C15_Witness ==
    /\ AfterInit
    /\ life.inits = 2
    /\ life.init_ret = -ENOMEM
    /\ \E k \in 1..Len(life.log) : life.log[k] = "shrinker_free"
    /\ ~life.registered /\ ~life.notifier

\* the latest thing logged is the release of the shrinker
Torn == life.log # <<>> /\ life.log[Len(life.log)] = "shrinker_free"

\* C16: teardown order.  Every release of the shrinker comes right after
\* the notifier was taken off the chain; between the two, in a teardown
\* after a successful init, the notifier is off and the shrinker still
\* registered.  Once the teardown has released the shrinker neither is
\* registered, no callback is running, and none is entered until the next
\* init.
C16_TeardownOrder ==
    /\ [](/\ \A k \in 1..Len(life.log) :
              life.log[k] = "shrinker_free" =>
                  k > 1 /\ life.log[k - 1] = "unregister_vmap_purge_notifier"
          /\ life.cpc = "free" /\ life.last.shrinker0 = "live" =>
                ~life.notifier /\ life.registered
          /\ Torn => /\ ~life.registered /\ ~life.notifier
                     /\ frame["c1"].pc \in {"idle", "done"})
    /\ [][Torn /\ frame["c1"].pc = "idle" => frame'["c1"].pc = "idle"]_vars

\* C16 witness: after an init, a scan of the registered shrinker and a
\* teardown, both registrations are gone
C16_Witness ==
    /\ Torn /\ life.cpc = "idle" /\ life.cleanups = 1
    /\ life.log = <<"shrinker_register", "register_vmap_purge_notifier",
                    "unregister_vmap_purge_notifier", "shrinker_free">>
    /\ audit.freed_ret > 0
    /\ ~life.registered /\ ~life.notifier

\* C17: every invocation returns.  With two contexts calling count, scan
\* and the unmap pass, with and without struct_mutex taken beforehand: a
\* context inside a callback owns the mutex, so no step of a callback waits
\* for it; some step is possible in every state; and with every context
\* inside a callback going on running, every callback entered returns.
C17_EveryCallReturns ==
    /\ [](\A c \in Ctx : frame[c].pc \notin {"idle", "done"} => struct_mutex = c)
    /\ [](ENABLED <<NextLive>>_vars)
    /\ \A c \in Ctx :
          [](frame[c].pc \notin {"idle", "done"} => <>(frame[c].pc = "done"))

\* C17 witness: a scan of one context has returned SHRINK_STOP while the
\* other context, which took the mutex before it called, is inside its
\* unmap pass; an earlier call has returned
C17_Witness ==
    \E c \in Ctx : \E d \in Ctx \ {c} :
        /\ frame[c].fn = "scan" /\ frame[c].pc = "done" /\ frame[c].ret = SHRINK_STOP
        /\ frame[d].fn = "vmap" /\ frame[d].pc = "loop"
        /\ hist[d].owner0 = d
        /\ audit.returned = 1

====
